---- MODULE Spec2Model ----
(***************************************************************************)
(* The rule-based medical diagnosis model of src/src/model.py.             *)
(*                                                                         *)
(* Python values are modelled as follows.                                  *)
(*   a float          : an IEEE 754 double, [s, m, e], every operation     *)
(*                      rounded as the hardware rounds it                  *)
(*   round(x, 3)      : [milli |-> k], the double nearest k/1000           *)
(*   an intensity     : [t |-> "int", v |-> i], or [t |-> "str", v |-> 0]  *)
(*                      for a value that is not a number                   *)
(*   a dict           : the sequence of its <<key, value>> items in        *)
(*                      insertion order (Python dicts keep that order)     *)
(*   the symptoms arg : [kind |-> "dict", items |-> ...] or None           *)
(*   a call's outcome : [exc, msg, val]: exc is "" and val the value       *)
(*                      returned, or exc is the class of the exception     *)
(*                      that left the call and msg its message             *)
(***************************************************************************)
EXTENDS Integers, Sequences, FiniteSets, TLC

VARIABLES
    symptom_weights,      \* self.symptom_weights
    disease_patterns,     \* self.disease_patterns
    severity_thresholds,  \* self.severity_thresholds
    symptoms,             \* the symptoms argument of the call
    overall_score,        \* determine_severity's first argument
    pattern_scores,       \* determine_severity's second argument
    op,                   \* the operation that ran last
    ret,                  \* its outcome
    stages,               \* the stages predict_diagnosis ran, in order
    symptoms2,            \* the second map of a pair of calls
    ret2,                 \* the outcome of the call on the second map
    log                   \* <<symptoms, outcome>> of each call so far

vars == <<symptom_weights, disease_patterns, severity_thresholds, symptoms,
          overall_score, pattern_scores, op, ret, stages, symptoms2, ret2, log>>

-----------------------------------------------------------------------------
(* Natural numbers of any size: little-endian sequences of 15-bit limbs    *)
(* with no leading zero limb (TLC's integers are 32 bits wide).            *)

W == 2^15

Limb(a, i) == IF i <= Len(a) THEN a[i] ELSE 0

RECURSIVE BNorm(_)
BNorm(a) == IF Len(a) > 0 /\ a[Len(a)] = 0 THEN BNorm(SubSeq(a, 1, Len(a) - 1)) ELSE a

RECURSIVE BAddLoop(_, _, _, _, _)
BAddLoop(a, b, i, c, acc) ==
    IF i > Len(a) /\ i > Len(b)
    THEN IF c > 0 THEN Append(acc, c) ELSE acc
    ELSE LET t == Limb(a, i) + Limb(b, i) + c
         IN  BAddLoop(a, b, i + 1, t \div W, Append(acc, t % W))

BAdd(a, b) == BAddLoop(a, b, 1, 0, <<>>)

\* a - b, for a >= b
RECURSIVE BSubLoop(_, _, _, _, _)
BSubLoop(a, b, i, c, acc) ==
    IF i > Len(a) THEN BNorm(acc)
    ELSE LET t == a[i] - Limb(b, i) - c
         IN  BSubLoop(a, b, i + 1, IF t < 0 THEN 1 ELSE 0,
                      Append(acc, IF t < 0 THEN t + W ELSE t))

BSub(a, b) == BSubLoop(a, b, 1, 0, <<>>)

\* -1, 0, 1 as a < b, a = b, a > b
RECURSIVE BCmpFrom(_, _, _)
BCmpFrom(a, b, i) ==
    IF i = 0 THEN 0
    ELSE IF a[i] < b[i] THEN -1
    ELSE IF a[i] > b[i] THEN 1
    ELSE BCmpFrom(a, b, i - 1)

BCmp(a, b) ==
    IF Len(a) < Len(b) THEN -1
    ELSE IF Len(a) > Len(b) THEN 1
    ELSE BCmpFrom(a, b, Len(a))

\* a * k, for 0 <= k < W
RECURSIVE BMulSmallLoop(_, _, _, _, _)
BMulSmallLoop(a, k, i, c, acc) ==
    IF i > Len(a)
    THEN IF c > 0 THEN Append(acc, c) ELSE acc
    ELSE LET t == a[i] * k + c
         IN  BMulSmallLoop(a, k, i + 1, t \div W, Append(acc, t % W))

BMulSmall(a, k) == IF k = 0 THEN <<>> ELSE BMulSmallLoop(a, k, 1, 0, <<>>)

Zeros(n) == [i \in 1..n |-> 0]

RECURSIVE BMulLoop(_, _, _, _)
BMulLoop(a, b, j, acc) ==
    IF j > Len(b) THEN acc
    ELSE BMulLoop(a, b, j + 1,
                  IF b[j] = 0 THEN acc
                  ELSE BAdd(acc, Zeros(j - 1) \o BMulSmall(a, b[j])))

BMul(a, b) == IF a = <<>> \/ b = <<>> THEN <<>> ELSE BMulLoop(a, b, 1, <<>>)

\* a * 2^s
BShl(a, s) ==
    IF a = <<>> THEN <<>>
    ELSE Zeros(s \div 15) \o BMulSmall(a, 2^(s % 15))

\* floor(a / k) for 0 < k <= W, from the top limb down
RECURSIVE BDivSmallLoop(_, _, _, _, _)
BDivSmallLoop(a, k, i, r, acc) ==
    IF i = 0 THEN BNorm(acc)
    ELSE LET t == r * W + a[i]
         IN  BDivSmallLoop(a, k, i - 1, t % k, <<t \div k>> \o acc)

BDivSmall(a, k) == BDivSmallLoop(a, k, Len(a), 0, <<>>)

\* floor(a / 2^s)
BShr(a, s) ==
    IF s \div 15 >= Len(a) THEN <<>>
    ELSE BDivSmall(SubSeq(a, s \div 15 + 1, Len(a)), 2^(s % 15))

\* bit i of a, bit 0 the lowest
BBit(a, i) == (Limb(a, i \div 15 + 1) \div 2^(i % 15)) % 2

\* whether a mod 2^s is not 0
BLowBits(a, s) ==
    \/ \E i \in 1..(s \div 15) : Limb(a, i) # 0
    \/ Limb(a, s \div 15 + 1) % 2^(s % 15) # 0

RECURSIVE SmallBitLen(_)
SmallBitLen(k) == IF k = 0 THEN 0 ELSE 1 + SmallBitLen(k \div 2)

BBitLen(a) == IF a = <<>> THEN 0 ELSE (Len(a) - 1) * 15 + SmallBitLen(a[Len(a)])

BFromInt(k) == BNorm(<<k % W, (k \div W) % W, k \div (W * W)>>)

RECURSIVE BToInt(_)
BToInt(a) == IF a = <<>> THEN 0 ELSE a[1] + W * BToInt(Tail(a))

\* One digit of a long division by b, whose four limbs are full (the top
\* one >= W/2): for r < b, the digit d = floor(r * W / b) and the remainder.
\* The digit is estimated from the top limbs, which never falls short and
\* exceeds it by 2 at most (Knuth, TAOCP 4.3.1, algorithm D), and then fixed.
RECURSIVE DivFix(_, _, _)
DivFix(b, r, d) == IF d > 0 /\ BCmp(BMulSmall(b, d), r) > 0 THEN DivFix(b, r, d - 1) ELSE d

DivStep(b, r) ==
    LET Taken(r1, d) == [d |-> d, r |-> BSub(r1, BMulSmall(b, d))]
        Digit(r1, est) == Taken(r1, DivFix(b, r1, IF est > W - 1 THEN W - 1 ELSE est))
        Shifted(r1) == Digit(r1, (Limb(r1, 5) * W + Limb(r1, 4)) \div b[4])
    IN  Shifted(IF r = <<>> THEN <<>> ELSE <<0>> \o r)

\* k more digits of the long division of r by b, below the digits q
RECURSIVE DivLoop(_, _, _, _)
DivLoop(b, r, k, q) ==
    IF k = 0 THEN [q |-> BNorm(q), r |-> r]
    ELSE LET Go(step) == DivLoop(b, step.r, k - 1, <<step.d>> \o q)
         IN  Go(DivStep(b, r))

\* floor(a * 2^60 / b) and the remainder, for a and b of 53 bits each
BDiv60(a, b) ==
    LET Go(x, y, ge) == DivLoop(y, IF ge THEN BSub(x, y) ELSE x, 4, <<IF ge THEN 1 ELSE 0>>)
        Scaled(x, y) == Go(x, y, BCmp(x, y) >= 0)
    IN  Scaled(BShl(a, 7), BShl(b, 7))

-----------------------------------------------------------------------------
(* IEEE 754 binary64 values in the normal range and zero, as Python's      *)
(* float: (-1)^s * m * 2^e with m = 0 or 2^52 <= m < 2^53, every           *)
(* operation rounded to nearest, ties to even.                             *)

FZero == [s |-> 0, m |-> <<>>, e |-> 0]

\* the double nearest to (-1)^s * (n + f) * 2^e, where 0 <= f < 1 and
\* sticky says whether f > 0
RoundToDouble(s, n, e, sticky) ==
    IF n = <<>> THEN FZero
    ELSE LET Carried(m, sh) ==
                 IF BBitLen(m) > 53
                 THEN [s |-> s, m |-> BShr(m, 1), e |-> e + sh + 1]
                 ELSE [s |-> s, m |-> m, e |-> e + sh]
             Rounded(q, sh, guard, rest) ==
                 Carried(IF guard /\ (rest \/ BBit(q, 0) = 1) THEN BAdd(q, <<1>>) ELSE q, sh)
             Shifted(sh) ==
                 IF sh <= 0 THEN [s |-> s, m |-> BShl(n, -sh), e |-> e + sh]
                 ELSE Rounded(BShr(n, sh), sh, BBit(n, sh - 1) = 1,
                              sticky \/ BLowBits(n, sh - 1))
         IN  Shifted(BBitLen(n) - 53)

\* float(k) for an int k
FromInt(k) == RoundToDouble(IF k < 0 THEN 1 ELSE 0, BFromInt(IF k < 0 THEN -k ELSE k), 0, FALSE)

\* -1, 0, 1 as |a| < |b|, |a| = |b|, |a| > |b|
MagCmp(a, b) ==
    IF a.m = <<>> THEN (IF b.m = <<>> THEN 0 ELSE -1)
    ELSE IF b.m = <<>> THEN 1
    ELSE IF a.e < b.e THEN -1
    ELSE IF a.e > b.e THEN 1
    ELSE BCmp(a.m, b.m)

FCmp(a, b) ==
    IF a.s # b.s THEN (IF a.m = <<>> /\ b.m = <<>> THEN 0 ELSE IF a.s = 1 THEN -1 ELSE 1)
    ELSE IF a.s = 0 THEN MagCmp(a, b) ELSE -MagCmp(a, b)

FLt(a, b) == FCmp(a, b) < 0
FLe(a, b) == FCmp(a, b) <= 0
FEq(a, b) == FCmp(a, b) = 0

\* a + b
FAdd(a, b) ==
    IF a.m = <<>> THEN b
    ELSE IF b.m = <<>> THEN a
    ELSE IF a.e - b.e > 64 THEN a
    ELSE IF b.e - a.e > 64 THEN b
    ELSE LET Sum(x, y, e, c) ==
                 RoundToDouble(IF a.s = b.s \/ c >= 0 THEN a.s ELSE b.s,
                               IF a.s = b.s THEN BAdd(x, y)
                               ELSE IF c >= 0 THEN BSub(x, y) ELSE BSub(y, x),
                               e, FALSE)
             Aligned(x, y, e) == Sum(x, y, e, BCmp(x, y))
             Align(e) == Aligned(BShl(a.m, a.e - e), BShl(b.m, b.e - e), e)
         IN  Align(IF a.e < b.e THEN a.e ELSE b.e)

\* a * b
FMul(a, b) ==
    IF a.m = <<>> \/ b.m = <<>> THEN FZero
    ELSE RoundToDouble((a.s + b.s) % 2, BMul(a.m, b.m), a.e + b.e, FALSE)

\* a / b, for b # 0
FDiv(a, b) ==
    IF a.m = <<>> THEN FZero
    ELSE LET Quotient(d) == RoundToDouble((a.s + b.s) % 2, d.q, a.e - b.e - 60, d.r # <<>>)
         IN  Quotient(BDiv60(a.m, b.m))

\* the double a decimal literal n/d of the source denotes
Literal(n, d) == FDiv(FromInt(n), FromInt(d))

\* round(x, 3), as the number k of thousandths of the result (the double
\* nearest k/1000): Python rounds the double's exact value, ties to even
Round3(x) ==
    IF x.m = <<>> THEN [milli |-> 0]
    ELSE LET Signed(k) == [milli |-> IF x.s = 1 THEN -k ELSE k]
             Rounded(q, up) == Signed(BToInt(q) + (IF up THEN 1 ELSE 0))
             Halved(n, q, sh) ==
                 Rounded(q, BBit(n, sh - 1) = 1 /\ (BLowBits(n, sh - 1) \/ BBit(q, 0) = 1))
             Scaled(n, sh) == Halved(n, BShr(n, sh), sh)
         IN  Scaled(BMulSmall(x.m, 1000), -x.e)

\* whether the double x >= 0 is within 2^-40 of the fraction n/d (n >= 0, d > 0)
Near(x, n, d) ==
    IF x.m = <<>> THEN BCmp(BShl(BFromInt(n), 40), BFromInt(d)) <= 0
    ELSE LET a == BMul(x.m, BFromInt(d))
             b == BShl(BFromInt(n), -x.e)
             t == BShl(BFromInt(d), -x.e - 40)
         IN  x.s = 0 /\ BCmp(IF BCmp(a, b) >= 0 THEN BSub(a, b) ELSE BSub(b, a), t) <= 0

FOne == FromInt(1)

-----------------------------------------------------------------------------
(* Python values.                                                          *)

PyInt(i) == [t |-> "int", v |-> i]
PyStr == [t |-> "str", v |-> 0]
PyNone == [kind |-> "NoneType", items |-> <<>>]
PyDict(items) == [kind |-> "dict", items |-> items]

Ok(v) == [exc |-> "", msg |-> "", val |-> v]
Raise(type, msg) == [exc |-> type, msg |-> msg, val |-> FZero]

\* Python's max(a, b) and min(a, b) of two floats: the first argument
\* unless the second is strictly greater (smaller)
PyMax(a, b) == IF FLt(a, b) THEN b ELSE a
PyMin(a, b) == IF FLt(b, a) THEN b ELSE a

\* dict operations on a sequence of <<key, value>> items
Keys(items) == {items[i][1] : i \in 1..Len(items)}
HasKey(items, k) == \E i \in 1..Len(items) : items[i][1] = k
Get(items, k) == items[CHOOSE i \in 1..Len(items) : items[i][1] = k][2]
Values(items) == [i \in 1..Len(items) |-> items[i][2]]

-----------------------------------------------------------------------------
(* The knowledge base.                                                     *)

\* the weight literals, in hundredths
WeightLiterals ==
    << <<"fiebre", 80>>,
       <<"dolor_cabeza", 60>>,
       <<"nausea", 50>>,
       <<"fatiga", 40>>,
       <<"dolor_pecho", 90>>,
       <<"dificultad_respirar", 95>>,
       <<"dolor_abdominal", 70>>,
       <<"mareos", 50>>,
       <<"perdida_peso", 60>>,
       <<"tos", 60>>,
       <<"congestion_nasal", 30>>,
       <<"dolor_garganta", 40>>,
       <<"dolor_muscular", 40>>,
       <<"dolor_articular", 50>>,
       <<"erupcion_cutanea", 60>>,
       <<"sangrado", 80>>,
       <<"cambios_vision", 70>>,
       <<"confusion", 90>>,
       <<"convulsiones", 95>>,
       <<"dolor_espalda", 50>> >>

_initialize_symptom_weights ==
    [i \in 1..Len(WeightLiterals) |->
        <<WeightLiterals[i][1], Literal(WeightLiterals[i][2], 100)>>]

_initialize_disease_patterns ==
    << <<"infeccion_respiratoria", <<"fiebre", "tos", "congestion_nasal", "dolor_garganta">> >>,
       <<"gastroenteritis", <<"nausea", "dolor_abdominal", "fatiga">> >>,
       <<"migrana", <<"dolor_cabeza", "nausea", "mareos">> >>,
       <<"ansiedad", <<"dolor_pecho", "dificultad_respirar", "mareos", "fatiga">> >>,
       <<"diabetes", <<"perdida_peso", "fatiga", "cambios_vision">> >>,
       <<"hipertension", <<"dolor_cabeza", "mareos", "dolor_pecho">> >>,
       <<"artritis", <<"dolor_articular", "dolor_muscular", "fatiga">> >>,
       <<"enfermedad_cardiaca", <<"dolor_pecho", "dificultad_respirar", "fatiga">> >>,
       <<"enfermedad_renal", <<"fatiga", "nausea", "dolor_espalda">> >>,
       <<"enfermedad_hepatica", <<"fatiga", "nausea", "dolor_abdominal", "erupcion_cutanea">> >>,
       <<"enfermedad_autoimmune", <<"fatiga", "dolor_articular", "erupcion_cutanea", "fiebre">> >>,
       <<"cancer", <<"perdida_peso", "fatiga", "dolor_abdominal", "sangrado">> >>,
       <<"enfermedad_neurologica", <<"confusion", "convulsiones", "cambios_vision", "mareos">> >> >>

_initialize_severity_thresholds ==
    << <<"NO_ENFERMO", <<Literal(0, 10), Literal(3, 10)>> >>,
       <<"ENFERMEDAD_LEVE", <<Literal(3, 10), Literal(6, 10)>> >>,
       <<"ENFERMEDAD_AGUDA", <<Literal(6, 10), Literal(8, 10)>> >>,
       <<"ENFERMEDAD_CRONICA", <<Literal(8, 10), Literal(10, 10)>> >> >>

\* MedicalDiagnosisModel(): the instance __init__ builds
MedicalDiagnosisModel ==
    [symptom_weights |-> _initialize_symptom_weights,
     disease_patterns |-> _initialize_disease_patterns,
     severity_thresholds |-> _initialize_severity_thresholds]

\* the shared instance as it is now
diagnosis_model ==
    [symptom_weights |-> symptom_weights,
     disease_patterns |-> disease_patterns,
     severity_thresholds |-> severity_thresholds]

-----------------------------------------------------------------------------
(* The scoring stages.                                                     *)

\* a variant of Normalize that omits the clamp: intensity / 10.0
NormalizeUnclamped(intensity) == FDiv(FromInt(intensity.v), FromInt(10))

\* min(max(intensity / 10.0, 0.0), 1.0), for an int intensity
Normalize(intensity) ==
    PyMin(PyMax(FDiv(FromInt(intensity.v), FromInt(10)), FZero), FOne)

\* a variant of ScoreLoop that skips a recognized symptom whose intensity
\* is not above 0, as the pattern loop does
RECURSIVE ScoreLoopPositive(_, _, _, _)
ScoreLoopPositive(self, items, i, tot) ==
    IF i > Len(items) THEN Ok(tot)
    ELSE IF HasKey(self.symptom_weights, items[i][1])
    THEN IF items[i][2].t # "int"
         THEN Raise("TypeError", "unsupported operand type(s) for /: 'str' and 'float'")
         ELSE IF items[i][2].v > 0
         THEN ScoreLoopPositive(self, items, i + 1,
                  [total_score |-> FAdd(tot.total_score,
                                        FMul(Normalize(items[i][2]),
                                             Get(self.symptom_weights, items[i][1]))),
                   total_weight |-> FAdd(tot.total_weight,
                                         Get(self.symptom_weights, items[i][1]))])
         ELSE ScoreLoopPositive(self, items, i + 1, tot)
    ELSE ScoreLoopPositive(self, items, i + 1, tot)

\* the for loop of calculate_symptom_score, from item i on; tot holds
\* total_score and total_weight
RECURSIVE ScoreLoop(_, _, _, _)
ScoreLoop(self, items, i, tot) ==
    IF i > Len(items) THEN Ok(tot)
    ELSE LET symptom == items[i][1]
             intensity == items[i][2]
         IN  IF HasKey(self.symptom_weights, symptom)
             THEN IF intensity.t # "int"
                  THEN Raise("TypeError", "unsupported operand type(s) for /: 'str' and 'float'")
                  ELSE LET weight == Get(self.symptom_weights, symptom)
                       IN  ScoreLoop(self, items, i + 1,
                               [total_score |-> FAdd(tot.total_score,
                                                     FMul(Normalize(intensity), weight)),
                                total_weight |-> FAdd(tot.total_weight, weight)])
             ELSE ScoreLoop(self, items, i + 1, tot)

calculate_symptom_score(self, symptoms_) ==
    IF symptoms_.kind # "dict"
    THEN Raise("AttributeError", "'NoneType' object has no attribute 'items'")
    ELSE LET Average(totals) ==
                 IF totals.exc # "" THEN totals
                 ELSE IF FEq(totals.val.total_weight, FZero) THEN Ok(FZero)
                 ELSE Ok(FDiv(totals.val.total_score, totals.val.total_weight))
         IN  Average(ScoreLoop(self, symptoms_.items, 1,
                               [total_score |-> FZero, total_weight |-> FZero]))

\* the inner for loop of detect_disease_patterns, from pattern symptom j on
RECURSIVE PatternLoop(_, _, _, _, _)
PatternLoop(self, items, pattern_symptoms, j, score) ==
    IF j > Len(pattern_symptoms) THEN Ok(score)
    ELSE LET symptom == pattern_symptoms[j]
         IN  IF ~HasKey(items, symptom)
             THEN PatternLoop(self, items, pattern_symptoms, j + 1, score)
             ELSE IF Get(items, symptom).t # "int"
             THEN Raise("TypeError", "'>' not supported between instances of 'str' and 'int'")
             ELSE IF Get(items, symptom).v > 0
             THEN LET intensity == Normalize(Get(items, symptom))
                      weight == IF HasKey(self.symptom_weights, symptom)
                                THEN Get(self.symptom_weights, symptom)
                                ELSE Literal(5, 10)
                  IN  PatternLoop(self, items, pattern_symptoms, j + 1,
                                  FAdd(score, FMul(intensity, weight)))
             ELSE PatternLoop(self, items, pattern_symptoms, j + 1, score)

\* a variant of PatternDivisor: the number of symptoms matched
PatternDivisorMatched(pattern_symptoms, matched_symptoms) ==
    IF matched_symptoms > 0 THEN matched_symptoms ELSE 1

\* what the pattern score is divided by
PatternDivisor(pattern_symptoms, matched_symptoms) == Len(pattern_symptoms)

\* how many symptoms of the pattern the input matches (matched_symptoms)
Matched(items, pattern_symptoms) ==
    Cardinality({j \in 1..Len(pattern_symptoms) :
                    /\ HasKey(items, pattern_symptoms[j])
                    /\ Get(items, pattern_symptoms[j]).t = "int"
                    /\ Get(items, pattern_symptoms[j]).v > 0})

\* the outer for loop of detect_disease_patterns, from disease i on
RECURSIVE DiseaseLoop(_, _, _, _)
DiseaseLoop(self, items, i, scores) ==
    IF i > Len(self.disease_patterns) THEN Ok(scores)
    ELSE LET disease == self.disease_patterns[i][1]
             pattern_symptoms == self.disease_patterns[i][2]
             Scored(score) ==
                 IF score.exc # "" THEN score
                 ELSE DiseaseLoop(self, items, i + 1,
                          Append(scores,
                                 <<disease,
                                   IF Len(pattern_symptoms) > 0
                                   THEN FDiv(score.val,
                                             FromInt(PatternDivisor(pattern_symptoms,
                                                         Matched(items, pattern_symptoms))))
                                   ELSE FZero>>))
         IN  Scored(PatternLoop(self, items, pattern_symptoms, 1, FZero))

detect_disease_patterns(self, symptoms_) ==
    IF symptoms_.kind # "dict"
    THEN IF \A i \in 1..Len(self.disease_patterns) : Len(self.disease_patterns[i][2]) = 0
         THEN DiseaseLoop(self, <<>>, 1, <<>>)
         ELSE Raise("TypeError", "argument of type 'NoneType' is not iterable")
    ELSE DiseaseLoop(self, symptoms_.items, 1, <<>>)

\* max(seq): the first of the greatest elements
RECURSIVE MaxFrom(_, _, _)
MaxFrom(values, i, best) ==
    IF i > Len(values) THEN best
    ELSE MaxFrom(values, i + 1, PyMax(best, values[i]))

\* a variant of ThresholdLoop whose ranges include their upper end
RECURSIVE ThresholdLoopClosed(_, _, _)
ThresholdLoopClosed(self, adjusted_score, i) ==
    IF i > Len(self.severity_thresholds) THEN ""
    ELSE IF /\ FLe(self.severity_thresholds[i][2][1], adjusted_score)
            /\ FLe(adjusted_score, self.severity_thresholds[i][2][2])
         THEN self.severity_thresholds[i][1]
         ELSE ThresholdLoopClosed(self, adjusted_score, i + 1)

\* the threshold loop of determine_severity, from entry i on: the first
\* label whose range holds the score, "" when none does
RECURSIVE ThresholdLoop(_, _, _)
ThresholdLoop(self, adjusted_score, i) ==
    IF i > Len(self.severity_thresholds) THEN ""
    ELSE LET severity == self.severity_thresholds[i][1]
             min_threshold == self.severity_thresholds[i][2][1]
             max_threshold == self.severity_thresholds[i][2][2]
         IN  IF FLe(min_threshold, adjusted_score) /\ FLt(adjusted_score, max_threshold)
             THEN severity
             ELSE ThresholdLoop(self, adjusted_score, i + 1)

AdjustedScore(overall_score_, pattern_scores_) ==
    LET max_pattern_score == IF Len(pattern_scores_) > 0
                             THEN MaxFrom(Values(pattern_scores_), 2, pattern_scores_[1][2])
                             ELSE FZero
    IN  FDiv(FAdd(overall_score_, max_pattern_score), FromInt(2))

determine_severity(self, overall_score_, pattern_scores_) ==
    LET Label(adjusted_score, found) ==
            IF found # "" THEN found
            ELSE IF FLe(FOne, adjusted_score) THEN "ENFERMEDAD_CRONICA"
            ELSE "NO_ENFERMO"
        Classify(adjusted_score) == Label(adjusted_score, ThresholdLoop(self, adjusted_score, 1))
    IN  Classify(AdjustedScore(overall_score_, pattern_scores_))

_generate_recommendations(severity, condition) ==
    IF severity = "NO_ENFERMO" THEN
        << "Continuar con el monitoreo regular de la salud",
           "Mantener habitos de vida saludables",
           "Consultar si aparecen nuevos sintomas" >>
    ELSE IF severity = "ENFERMEDAD_LEVE" THEN
        << "Monitorear sintomas de cerca",
           "Considerar consulta medica si los sintomas persisten",
           "Mantener reposo y hidratacion adecuada",
           "Evitar actividades extenuantes" >>
    ELSE IF severity = "ENFERMEDAD_AGUDA" THEN
        << "CONSULTA MEDICA INMEDIATA RECOMENDADA",
           "Buscar atencion medica en las proximas 24 horas",
           "Monitorear signos vitales regularmente",
           "Evitar automedicacion",
           "Considerar visita a urgencias si empeora" >>
    ELSE IF severity = "ENFERMEDAD_CRONICA" THEN
        << "CONSULTA MEDICA URGENTE REQUERIDA",
           "Buscar atencion especializada inmediatamente",
           "Posible hospitalizacion requerida",
           "Monitoreo medico continuo necesario",
           "Seguimiento con especialista recomendado" >>
    ELSE << >>

\* a variant of MaxItemFrom that keeps the last of the items whose value
\* is the greatest
RECURSIVE MaxItemFromLast(_, _, _)
MaxItemFromLast(items, i, best) ==
    IF i > Len(items) THEN best
    ELSE MaxItemFromLast(items, i + 1, IF FLe(best[2], items[i][2]) THEN items[i] ELSE best)

\* max(pattern_scores.items(), key=lambda x: x[1]): the first item whose
\* value is the greatest
RECURSIVE MaxItemFrom(_, _, _)
MaxItemFrom(items, i, best) ==
    IF i > Len(items) THEN best
    ELSE MaxItemFrom(items, i + 1, IF FLt(best[2], items[i][2]) THEN items[i] ELSE best)

\* a variant of MostLikely that names no condition when the best score is 0
MostLikelyPositive(pattern_scores_) ==
    IF Len(pattern_scores_) > 0
          /\ FLt(FZero, MaxItemFrom(pattern_scores_, 2, pattern_scores_[1])[2])
    THEN MaxItemFrom(pattern_scores_, 2, pattern_scores_[1])
    ELSE <<"ninguna", FZero>>

MostLikely(pattern_scores_) ==
    IF Len(pattern_scores_) > 0
    THEN MaxItemFrom(pattern_scores_, 2, pattern_scores_[1])
    ELSE <<"ninguna", FZero>>

\* {k: round(v, 3) for k, v in pattern_scores.items()}
RoundItems(items) == [i \in 1..Len(items) |-> <<items[i][1], Round3(items[i][2])>>]

-----------------------------------------------------------------------------
(* The orchestrator.                                                       *)

\* a variant of Exception: what `except ValueError` would catch
ValueErrorOnly == {"ValueError"}

\* the exception classes `except Exception` catches
Exception == {"ValueError", "TypeError", "AttributeError"}

\* the except clause of predict_diagnosis after the stages `ran`: the error
\* record for an exception it catches; any other exception leaves the call
Except(e, ran) ==
    IF e.exc \in Exception
    THEN [exc |-> "", msg |-> "", stages |-> ran,
          val |-> [error |-> e.msg, diagnosis |-> "ERROR", confidence |-> [milli |-> 0]]]
    ELSE [exc |-> e.exc, msg |-> e.msg, stages |-> ran, val |-> FZero]

\* a variant of TooFew that counts the recognized entries only
TooFewRecognized(symptoms_) ==
    \/ symptoms_.kind = "NoneType"
    \/ Cardinality({i \in 1..Len(symptoms_.items) :
                        HasKey(WeightLiterals, symptoms_.items[i][1])}) < 3

\* not symptoms or len(symptoms) < 3
TooFew(symptoms_) ==
    symptoms_.kind = "NoneType" \/ Len(symptoms_.items) = 0 \/ Len(symptoms_.items) < 3

predict_diagnosis(self, symptoms_) ==
    IF TooFew(symptoms_)
    THEN Except(Raise("ValueError", "Se requieren al menos 3 sintomas para el diagnostico"), <<>>)
    ELSE
    LET Result(overall_score_, pattern_scores_, severity, most_likely_disease) ==
            [exc |-> "", msg |-> "",
             stages |-> <<"calculate_symptom_score", "detect_disease_patterns",
                          "determine_severity", "_generate_recommendations">>,
             val |-> [diagnosis |-> severity,
                      confidence |-> Round3(overall_score_),
                      most_likely_condition |-> most_likely_disease[1],
                      condition_confidence |-> Round3(most_likely_disease[2]),
                      symptom_score |-> Round3(overall_score_),
                      pattern_scores |-> RoundItems(pattern_scores_),
                      recommendations |->
                          _generate_recommendations(severity, most_likely_disease[1]),
                      input_symptoms |-> symptoms_]]
        AfterPatterns(overall, patterns) ==
            IF patterns.exc # ""
            THEN Except(patterns, <<"calculate_symptom_score", "detect_disease_patterns">>)
            ELSE Result(overall.val, patterns.val,
                        determine_severity(self, overall.val, patterns.val),
                        MostLikely(patterns.val))
        AfterScore(overall) ==
            IF overall.exc # "" THEN Except(overall, <<"calculate_symptom_score">>)
            ELSE AfterPatterns(overall, detect_disease_patterns(self, symptoms_))
    IN  AfterScore(calculate_symptom_score(self, symptoms_))

-----------------------------------------------------------------------------
(* The inputs the calls are made on.                                       *)

MaxEntries == 4
MaxTenths == 11
MaxCalls == 3

\* symptom names: three the weight table knows, three it does not
InputKeys == <<"dolor_pecho", "dificultad_respirar", "fatiga", "hipo", "picazon", "calambres">>

\* intensities: below 0, 0, inside the range, above 10, and not a number
IntensitiesOf(key) ==
    IF HasKey(WeightLiterals, key)
    THEN {PyInt(-2), PyInt(0), PyInt(6), PyInt(12), PyStr}
    ELSE {PyInt(3), PyStr}

\* every dict over some of the keys of choices[i..], a sequence of
\* <<key, values>>, each key with one of its values, its items in the
\* order of choices
RECURSIVE DictsFrom(_, _)
DictsFrom(choices, i) ==
    IF i > Len(choices) THEN {<<>>}
    ELSE LET rest == DictsFrom(choices, i + 1)
         IN  rest \cup {<<<<choices[i][1], v>>>> \o r : v \in choices[i][2], r \in rest}

\* maps of three recognized symptoms at low intensities, where several
\* conditions score the same or almost the same
CloseKeys == <<"fiebre", "dolor_cabeza", "fatiga">>
CloseIntensities == {1, 2, 4}
CloseInputs ==
    {PyDict([i \in 1..3 |-> <<CloseKeys[i], PyInt(v[i])>>]) : v \in [1..3 -> CloseIntensities]}

Inputs ==
    {PyNone} \cup CloseInputs \cup
    {PyDict(items) : items \in {d \in DictsFrom([i \in 1..Len(InputKeys) |->
                                     <<InputKeys[i], IntensitiesOf(InputKeys[i])>>], 1) :
                   Len(d) <= MaxEntries}}

\* arguments of determine_severity: the floats -0.2, -0.1, ..., MaxTenths/10
SevFloats == {Literal(k, 10) : k \in -2..MaxTenths}
SevPatterns == DictsFrom(<< <<"x", SevFloats>>, <<"y", SevFloats>> >>, 1)

\* the inputs of a sequence of calls
CallInputs ==
    { PyNone,
      PyDict(<<>>),
      PyDict(<< <<"fatiga", PyInt(6)>> >>),
      PyDict(<< <<"hipo", PyInt(3)>>, <<"picazon", PyInt(3)>>, <<"calambres", PyInt(3)>> >>),
      PyDict(<< <<"dolor_pecho", PyInt(12)>>, <<"fatiga", PyInt(6)>>, <<"hipo", PyInt(3)>> >>),
      PyDict(<< <<"dolor_pecho", PyStr>>, <<"fatiga", PyInt(6)>>, <<"hipo", PyInt(3)>> >>) }

\* pairs of maps over the same three keys, the second with every intensity
\* at least the first's, its items in any order
PairKeys == <<"dolor_cabeza", "cambios_vision", "fatiga">>
PairIntensities == {0, 2, 10}
Permutations3 == {p \in [1..3 -> 1..3] : \A i, j \in 1..3 : i # j => p[i] # p[j]}
Pairs ==
    {<<PyDict([i \in 1..3 |-> <<PairKeys[i], PyInt(t[1][i])>>]),
       PyDict([i \in 1..3 |-> <<PairKeys[t[3][i]], PyInt(t[2][t[3][i]])>>])>> :
        t \in {u \in [1..3 -> PairIntensities] \X [1..3 -> PairIntensities] \X Permutations3 :
                  \A i \in 1..3 : u[2][i] >= u[1][i]}}

-----------------------------------------------------------------------------
(* The state machine: the instance is built and an input chosen, then one  *)
(* of the operations is called on it. The operations keep nothing between  *)
(* calls (SpecCalls below makes sequences of calls), so a behaviour here   *)
(* is one call.                                                            *)

NoOutcome == Ok(FZero)

Built ==
    /\ symptom_weights = MedicalDiagnosisModel.symptom_weights
    /\ disease_patterns = MedicalDiagnosisModel.disease_patterns
    /\ severity_thresholds = MedicalDiagnosisModel.severity_thresholds
    /\ op = "init"
    /\ ret = NoOutcome
    /\ stages = <<>>
    /\ ret2 = NoOutcome
    /\ log = <<>>

Init ==
    /\ Built
    /\ symptoms2 = PyNone
    /\ \/ symptoms \in Inputs /\ overall_score = FZero /\ pattern_scores = <<>>
       \/ symptoms = PyNone /\ overall_score \in SevFloats /\ pattern_scores \in SevPatterns

\* a variant of predict_medical_diagnosis that remembers the symptoms it
\* does not know, with the default weight of the pattern loop
RECURSIVE Learn(_, _, _)
Learn(weights, items, i) ==
    IF i > Len(items) THEN weights
    ELSE Learn(IF HasKey(weights, items[i][1]) THEN weights
               ELSE Append(weights, <<items[i][1], Literal(5, 10)>>),
               items, i + 1)

predict_medical_diagnosis_learning(s) ==
    LET Return(r) ==
            /\ symptoms' = s
            /\ op' = "predict_diagnosis"
            /\ ret' = [exc |-> r.exc, msg |-> r.msg, val |-> r.val]
            /\ stages' = r.stages
            /\ symptom_weights' = Learn(symptom_weights, s.items, 1)
            /\ UNCHANGED <<disease_patterns, severity_thresholds>>
    IN  Return(predict_diagnosis(diagnosis_model, s))

\* predict_medical_diagnosis(s): diagnosis_model.predict_diagnosis(s)
predict_medical_diagnosis(s) ==
    LET Return(r) ==
            /\ symptoms' = s
            /\ op' = "predict_diagnosis"
            /\ ret' = [exc |-> r.exc, msg |-> r.msg, val |-> r.val]
            /\ stages' = r.stages
            /\ UNCHANGED <<symptom_weights, disease_patterns, severity_thresholds>>
    IN  Return(predict_diagnosis(diagnosis_model, s))

PredictDiagnosis ==
    /\ op = "init"
    /\ predict_medical_diagnosis(symptoms)
    /\ UNCHANGED <<overall_score, pattern_scores, symptoms2, ret2, log>>

CalculateSymptomScore ==
    /\ op = "init"
    /\ op' = "calculate_symptom_score"
    /\ ret' = calculate_symptom_score(diagnosis_model, symptoms)
    /\ stages' = <<>>
    /\ UNCHANGED <<symptom_weights, disease_patterns, severity_thresholds, symptoms,
                   overall_score, pattern_scores, symptoms2, ret2, log>>

DetectDiseasePatterns ==
    /\ op = "init"
    /\ op' = "detect_disease_patterns"
    /\ ret' = detect_disease_patterns(diagnosis_model, symptoms)
    /\ stages' = <<>>
    /\ UNCHANGED <<symptom_weights, disease_patterns, severity_thresholds, symptoms,
                   overall_score, pattern_scores, symptoms2, ret2, log>>

DetermineSeverity ==
    /\ op = "init"
    /\ op' = "determine_severity"
    /\ ret' = Ok(determine_severity(diagnosis_model, overall_score, pattern_scores))
    /\ stages' = <<>>
    /\ UNCHANGED <<symptom_weights, disease_patterns, severity_thresholds, symptoms,
                   overall_score, pattern_scores, symptoms2, ret2, log>>

Next ==
    \/ PredictDiagnosis
    \/ CalculateSymptomScore
    \/ DetectDiseasePatterns
    \/ DetermineSeverity

Spec == Init /\ [][Next]_vars

(* A sequence of calls on the shared instance, each logged.                *)

InitCalls ==
    /\ Built
    /\ symptoms = PyNone
    /\ symptoms2 = PyNone
    /\ overall_score = FZero
    /\ pattern_scores = <<>>

LoggedCall ==
    \E s \in CallInputs :
        /\ Len(log) < MaxCalls
        /\ predict_medical_diagnosis(s)
        /\ log' = Append(log, <<s, ret'>>)
        /\ UNCHANGED <<overall_score, pattern_scores, symptoms2, ret2>>

NextCalls == LoggedCall

SpecCalls == InitCalls /\ [][NextCalls]_vars

(* The same call made on each map of a pair.                               *)

InitPair ==
    /\ Built
    /\ \E pair \in Pairs : symptoms = pair[1] /\ symptoms2 = pair[2]
    /\ overall_score = FZero
    /\ pattern_scores = <<>>

PairScore ==
    /\ op = "init"
    /\ op' = "calculate_symptom_score"
    /\ ret' = calculate_symptom_score(diagnosis_model, symptoms)
    /\ ret2' = calculate_symptom_score(diagnosis_model, symptoms2)
    /\ UNCHANGED <<symptom_weights, disease_patterns, severity_thresholds, symptoms,
                   overall_score, pattern_scores, stages, symptoms2, log>>

PairPatterns ==
    /\ op = "init"
    /\ op' = "detect_disease_patterns"
    /\ ret' = detect_disease_patterns(diagnosis_model, symptoms)
    /\ ret2' = detect_disease_patterns(diagnosis_model, symptoms2)
    /\ UNCHANGED <<symptom_weights, disease_patterns, severity_thresholds, symptoms,
                   overall_score, pattern_scores, stages, symptoms2, log>>

PairPredict ==
    /\ op = "init"
    /\ op' = "predict_diagnosis"
    /\ ret' = predict_diagnosis(diagnosis_model, symptoms)
    /\ ret2' = predict_diagnosis(diagnosis_model, symptoms2)
    /\ UNCHANGED <<symptom_weights, disease_patterns, severity_thresholds, symptoms,
                   overall_score, pattern_scores, stages, symptoms2, log>>

NextPair == PairScore \/ PairPatterns \/ PairPredict

SpecPair == InitPair /\ [][NextPair]_vars

-----------------------------------------------------------------------------
(* What the properties are stated in.                                      *)

Labels == {"NO_ENFERMO", "ENFERMEDAD_LEVE", "ENFERMEDAD_AGUDA", "ENFERMEDAD_CRONICA"}

\* the order NO_ENFERMO < ENFERMEDAD_LEVE < ENFERMEDAD_AGUDA < ENFERMEDAD_CRONICA
Rank(label) ==
    IF label = "NO_ENFERMO" THEN 0
    ELSE IF label = "ENFERMEDAD_LEVE" THEN 1
    ELSE IF label = "ENFERMEDAD_AGUDA" THEN 2
    ELSE 3

\* the four intervals, in tenths
Interval(label) ==
    IF label = "NO_ENFERMO" THEN <<0, 3>>
    ELSE IF label = "ENFERMEDAD_LEVE" THEN <<3, 6>>
    ELSE IF label = "ENFERMEDAD_AGUDA" THEN <<6, 8>>
    ELSE <<8, 10>>

Within(label, v) ==
    FLe(Literal(Interval(label)[1], 10), v) /\ FLt(v, Literal(Interval(label)[2], 10))

KnownConditions ==
    {_initialize_disease_patterns[i][1] : i \in 1..Len(_initialize_disease_patterns)}

FullKeys ==
    {"diagnosis", "confidence", "most_likely_condition", "condition_confidence",
     "symptom_score", "pattern_scores", "recommendations", "input_symptoms"}

FullShape(v) == DOMAIN v = FullKeys

ErrorShape(v) ==
    /\ DOMAIN v = {"error", "diagnosis", "confidence"}
    /\ v.diagnosis = "ERROR"
    /\ v.confidence = [milli |-> 0]
    /\ v.error # ""

Recognized(key) == HasKey(WeightLiterals, key)

\* a map whose recognized symptoms all have a number as intensity (the code
\* never reads the intensity of a symptom it does not recognize)
WellTyped(s) ==
    /\ s.kind = "dict"
    /\ \A i \in 1..Len(s.items) : Recognized(s.items[i][1]) => s.items[i][2].t = "int"

InUnit(v) == FLe(FZero, v) /\ FLe(v, FOne)

\* clamp(intensity / 10, 0, 1), in tenths
ClampTenths(v) == IF v < 0 THEN 0 ELSE IF v > 10 THEN 10 ELSE v

\* the weight of a symptom, in hundredths
Hundredths(key) == IF Recognized(key) THEN Get(WeightLiterals, key) ELSE 50

\* sum of clamp * weight over the recognized entries from i on, in thousandths
RECURSIVE ScoreNum(_, _)
ScoreNum(items, i) ==
    IF i > Len(items) THEN 0
    ELSE (IF Recognized(items[i][1])
          THEN ClampTenths(items[i][2].v) * Hundredths(items[i][1]) ELSE 0)
         + ScoreNum(items, i + 1)

\* sum of the weights of the recognized entries from i on, in hundredths
RECURSIVE WeightSum(_, _)
WeightSum(items, i) ==
    IF i > Len(items) THEN 0
    ELSE (IF Recognized(items[i][1]) THEN Hundredths(items[i][1]) ELSE 0)
         + WeightSum(items, i + 1)

\* sum of clamp * weight over the symptoms of the pattern from j on that the
\* map holds with an intensity above 0, in thousandths
RECURSIVE PatternNum(_, _, _)
PatternNum(items, pattern, j) ==
    IF j > Len(pattern) THEN 0
    ELSE (IF HasKey(items, pattern[j]) /\ Get(items, pattern[j]).v > 0
          THEN ClampTenths(Get(items, pattern[j]).v) * Hundredths(pattern[j]) ELSE 0)
         + PatternNum(items, pattern, j + 1)

\* no symptom of the map matches a pattern
NoMatch(items) ==
    \A i \in 1..Len(_initialize_disease_patterns) :
        \A j \in 1..Len(_initialize_disease_patterns[i][2]) :
            LET symptom == _initialize_disease_patterns[i][2][j]
            IN  HasKey(items, symptom) =>
                    Get(items, symptom).t = "int" /\ Get(items, symptom).v <= 0

\* a stage of predict_diagnosis fails on the map
StageFails(s) ==
    \/ calculate_symptom_score(MedicalDiagnosisModel, s).exc # ""
    \/ detect_disease_patterns(MedicalDiagnosisModel, s).exc # ""

-----------------------------------------------------------------------------
(* The properties.                                                         *)

\* C1: predict_diagnosis on None, on an empty map or on a map of fewer than
\* 3 entries returns the error record (diagnosis "ERROR", confidence 0.0, an
\* error message) and runs no stage; the entries are counted whether
\* recognized or not, so a map of 3 or more entries none of which is in the
\* weight table is not rejected and gives a full record.
C1_Validation ==
    op = "predict_diagnosis" =>
        /\ (symptoms.kind = "NoneType" \/ Len(symptoms.items) < 3) =>
               ret.exc = "" /\ ErrorShape(ret.val) /\ stages = <<>>
        /\ ( /\ symptoms.kind = "dict"
             /\ Len(symptoms.items) >= 3
             /\ \A i \in 1..Len(symptoms.items) : ~Recognized(symptoms.items[i][1]) ) =>
               ret.exc = "" /\ FullShape(ret.val) /\ ret.val.diagnosis \in Labels

C1_Witness ==
    /\ op = "predict_diagnosis"
    /\ symptoms.kind = "dict"
    /\ Len(symptoms.items) = 2
    /\ \A i \in 1..2 : Recognized(symptoms.items[i][1]) /\ symptoms.items[i][2].t = "int"
    /\ ErrorShape(ret.val)
    /\ stages = <<>>

\* C2: predict_diagnosis never raises: for every input it returns either
\* the full record (its eight fields, a severity label as diagnosis, after
\* all four stages) or the error record, and when a stage fails it returns
\* the error record.
C2_NeverRaises ==
    op = "predict_diagnosis" =>
        /\ ret.exc = ""
        /\ \/ /\ FullShape(ret.val)
              /\ ret.val.diagnosis \in Labels
              /\ Len(stages) = 4
           \/ ErrorShape(ret.val)
        /\ (symptoms.kind = "dict" /\ Len(symptoms.items) >= 3 /\ StageFails(symptoms)) =>
               ErrorShape(ret.val)

C2_Witness ==
    /\ op = "predict_diagnosis"
    /\ symptoms.kind = "dict"
    /\ Len(symptoms.items) >= 3
    /\ \E i \in 1..Len(symptoms.items) :
           Recognized(symptoms.items[i][1]) /\ symptoms.items[i][2].t = "str"
    /\ ret.exc = ""
    /\ ErrorShape(ret.val)
    /\ stages # <<>>

\* C3: for every map whose intensities are numbers, below 0 and above 10
\* included, calculate_symptom_score returns a value in [0, 1] and every
\* value detect_disease_patterns returns is in [0, 1].
C3_UnitRange ==
    WellTyped(symptoms) =>
        /\ op = "calculate_symptom_score" => ret.exc = "" /\ InUnit(ret.val)
        /\ op = "detect_disease_patterns" =>
               ret.exc = "" /\ \A i \in 1..Len(ret.val) : InUnit(ret.val[i][2])

C3_Witness ==
    /\ op = "calculate_symptom_score"
    /\ WellTyped(symptoms)
    /\ \E i \in 1..Len(symptoms.items) :
           Recognized(symptoms.items[i][1]) /\ symptoms.items[i][2].v > 10
    /\ \E i \in 1..Len(symptoms.items) :
           Recognized(symptoms.items[i][1]) /\ symptoms.items[i][2].v < 0
    /\ FLt(FZero, ret.val)
    /\ FLt(ret.val, FOne)

\* the greatest of the pattern values, 0.0 for no pattern
Best(patterns) ==
    IF Len(patterns) = 0 THEN FZero
    ELSE patterns[CHOOSE i \in 1..Len(patterns) :
                      \A j \in 1..Len(patterns) : FLe(patterns[j][2], patterns[i][2])][2]

Adjusted(overall, patterns) == FDiv(FAdd(overall, Best(patterns)), FromInt(2))

\* C4: determine_severity(overall, patterns) returns one of the four labels;
\* with adjusted = (overall + best) / 2, best the greatest pattern value or
\* 0.0 for no pattern: for adjusted in [0, 1) the label is the one whose
\* interval among [0, 0.3), [0.3, 0.6), [0.6, 0.8), [0.8, 1.0) holds adjusted,
\* and exactly one does; for adjusted >= 1.0 it is ENFERMEDAD_CRONICA;
\* (0.0, {}) gives NO_ENFERMO and (1.0, {'x': 1.0}) ENFERMEDAD_CRONICA.
C4_Severity ==
    op = "determine_severity" =>
        /\ ret.exc = ""
        /\ ret.val \in Labels
        /\ (InUnit(Adjusted(overall_score, pattern_scores))
               /\ FLt(Adjusted(overall_score, pattern_scores), FOne)) =>
               \A label \in Labels :
                   (ret.val = label) <=> Within(label, Adjusted(overall_score, pattern_scores))
        /\ FLe(FOne, Adjusted(overall_score, pattern_scores)) => ret.val = "ENFERMEDAD_CRONICA"
        /\ (overall_score = FZero /\ pattern_scores = <<>>) => ret.val = "NO_ENFERMO"
        /\ (overall_score = FOne /\ pattern_scores = << <<"x", FOne>> >>) =>
               ret.val = "ENFERMEDAD_CRONICA"

C4_Witness ==
    /\ op = "determine_severity"
    /\ overall_score = Literal(3, 10)
    /\ pattern_scores = << <<"x", Literal(1, 10)>>, <<"y", Literal(3, 10)>> >>
    /\ ret.val = "ENFERMEDAD_LEVE"

C6_PatternScores ==
    (op = "detect_disease_patterns" /\ WellTyped(symptoms)) =>
        /\ ret.exc = ""
        /\ Len(ret.val) = 13
        /\ Cardinality(KnownConditions) = 13
        /\ \A i \in 1..Len(ret.val) :
               /\ ret.val[i][1] = _initialize_disease_patterns[i][1]
               /\ Near(ret.val[i][2],
                       PatternNum(symptoms.items, _initialize_disease_patterns[i][2], 1),
                       1000 * Len(_initialize_disease_patterns[i][2]))

C6_Witness ==
    /\ op = "detect_disease_patterns"
    /\ WellTyped(symptoms)
    /\ ret.exc = ""
    /\ \E i \in 1..Len(ret.val) :
           /\ Matched(symptoms.items, _initialize_disease_patterns[i][2]) = 2
           /\ Len(_initialize_disease_patterns[i][2]) = 4
           /\ FLt(FZero, ret.val[i][2])

\* C7: after any sequence of calls of predict_medical_diagnosis on the
\* shared instance, failing ones included, the three tables are what
\* __init__ built, and two calls on the same input returned the same
\* record whatever calls ran between them.
C7_NoStateAcrossCalls ==
    /\ symptom_weights = MedicalDiagnosisModel.symptom_weights
    /\ disease_patterns = MedicalDiagnosisModel.disease_patterns
    /\ severity_thresholds = MedicalDiagnosisModel.severity_thresholds
    /\ \A i, j \in 1..Len(log) : log[i][1] = log[j][1] => log[i][2] = log[j][2]

C7_Witness ==
    /\ Len(log) = 3
    /\ log[1][1] = log[3][1]
    /\ log[2][1] # log[1][1]
    /\ FullShape(log[1][2].val)
    /\ ErrorShape(log[2][2].val)
    /\ \E i \in 1..Len(log[1][1].items) : ~Recognized(log[1][1].items[i][1])

\* C8: calculate_symptom_score returns
\* sum(clamp(intensity / 10, 0, 1) * weight) / sum(weight) over the entries
\* whose key is in the weight table, an entry of intensity 0 adding its
\* weight to the divisor, and 0.0 when no key of the map is in the table.
C8_WeightedAverage ==
    (op = "calculate_symptom_score" /\ WellTyped(symptoms)) =>
        /\ ret.exc = ""
        /\ IF WeightSum(symptoms.items, 1) = 0
           THEN ret.val = FZero
           ELSE Near(ret.val, ScoreNum(symptoms.items, 1), 10 * WeightSum(symptoms.items, 1))

C8_Witness ==
    /\ op = "calculate_symptom_score"
    /\ WellTyped(symptoms)
    /\ \E i \in 1..Len(symptoms.items) :
           Recognized(symptoms.items[i][1]) /\ symptoms.items[i][2].v = 0
    /\ \E i \in 1..Len(symptoms.items) : ~Recognized(symptoms.items[i][1])
    /\ FLt(FZero, ret.val)

\* C9: in every full record of predict_diagnosis, most_likely_condition is
\* one of the 13 conditions and never "ninguna"; when no symptom of the map
\* matches a pattern, the record names the first condition of the table,
\* 'infeccion_respiratoria', with condition_confidence 0.0 and diagnosis
\* NO_ENFERMO.
C9_NeverNinguna ==
    (op = "predict_diagnosis" /\ ret.exc = "" /\ FullShape(ret.val)) =>
        /\ ret.val.most_likely_condition \in KnownConditions
        /\ ret.val.most_likely_condition # "ninguna"
        /\ NoMatch(symptoms.items) =>
               /\ ret.val.most_likely_condition = "infeccion_respiratoria"
               /\ ret.val.condition_confidence = [milli |-> 0]
               /\ ret.val.diagnosis = "NO_ENFERMO"

C9_Witness ==
    /\ op = "predict_diagnosis"
    /\ Len(symptoms.items) = 3
    /\ \A i \in 1..3 : ~Recognized(symptoms.items[i][1])
    /\ FullShape(ret.val)
    /\ ret.val.most_likely_condition = "infeccion_respiratoria"

\* C10: for two maps of the same keys, three at least, with numbers as
\* intensities and every intensity of the second at least that of the
\* first, the symptom score and every pattern score of the second are at
\* least those of the first, and the diagnosis of the second is not below
\* that of the first in the order of the labels.
C10_Monotone ==
    /\ op = "calculate_symptom_score" => FLe(ret.val, ret2.val)
    /\ op = "detect_disease_patterns" =>
           \A i \in 1..Len(ret.val) : FLe(ret.val[i][2], ret2.val[i][2])
    /\ op = "predict_diagnosis" =>
           Rank(ret.val.diagnosis) <= Rank(ret2.val.diagnosis)

====
